---- MODULE Spec2Model ----
(***************************************************************************)
(* A model of the host/guest bridge of go-protoc-wasi (protoc.go): the     *)
(* Protoc wrapper with its mutex, its initialized flag, the guest exports  *)
(* it calls (malloc, free, protoc_init, protoc_run, protoc_destroy), the   *)
(* guest's linear memory, and the plugin_communicate host callback.        *)
(*                                                                         *)
(* Host threads call Init, Run and Close on one instance.  Each call takes *)
(* the mutex (Lock), runs its body, and releases the mutex (Unlock, the    *)
(* deferred p.mu.Unlock()).  Run's body is split where it calls the guest  *)
(* export protoc_run: the guest may call back into the host any number of  *)
(* times before the export returns.                                        *)
(*                                                                         *)
(* The guest and the wazero runtime are the environment: the result of an  *)
(* export call, the pointer malloc returns, and the words the guest passes *)
(* to the callback are chosen nondeterministically from small sets.        *)
(***************************************************************************)
EXTENDS Integers, Sequences, FiniteSets, TLC

\* ------------------------------------------------------------ bounds

\* Size of the guest's linear memory in bytes.
MemSize == 40
\* Number of Init/Run/Close calls the host threads issue in one behaviour.
MaxOps == 3
\* Longest argument list a Run call is given.
MaxArgs == 2
\* Number of plugin callbacks the guest makes during one protoc_run.
MaxCallbacks == 1

\* The host threads sharing the instance.
Threads == {"t1", "t2"}
\* p.mu when no thread holds it.
Unlocked == "unlocked"

\* ------------------------------------------------------------ values

\* A 32-bit wasm value (what an export returns on the stack, results[0]) is
\* kept as its four bytes, lowest first: the integers of TLC are 32 bits
\* wide and cannot hold 2^32 - 1.  Pointers and lengths stay below 2^31 and
\* are kept as numbers.

\* PutUint32 with the byte order reversed (big-endian).
PutUint32BE(v) ==
  << (v \div 16777216) % 256, (v \div 65536) % 256, (v \div 256) % 256, v % 256 >>
\* binary.LittleEndian.PutUint32: the four bytes of v, lowest first.
PutUint32(v) ==
  << v % 256, (v \div 256) % 256, (v \div 65536) % 256, (v \div 16777216) % 256 >>
\* The number four little-endian bytes encode, for a value below 2^31.
Uint32At(b) == b[1] + 256 * b[2] + 65536 * b[3] + 16777216 * b[4]
\* api.EncodeI32: the two's complement bits of an int32.
EncodeI32(v) ==
  IF v >= 0 THEN PutUint32(v)
  ELSE [ i \in 1..4 |-> 255 - PutUint32(-v - 1)[i] ]
\* int32(results[0]): the 32 bits read as a signed integer.
Int32(w) ==
  IF w[4] >= 128 THEN -Uint32At([ i \in 1..4 |-> 255 - w[i] ]) - 1
  ELSE Uint32At(w)

\* The default argv[0] of Run, "protoc", as bytes.
DefaultArgs == << << 112, 114, 111, 116, 111, 99 >> >>
\* The argument lists the host passes: the first n of "a", "bb", "", "d", ...
\* for n in 0..MaxArgs (argument i has i % 3 bytes, each 96 + i).
ArgAt(i) == [ j \in 1..(i % 3) |-> 96 + i ]
ArgLists == { [ i \in 1..n |-> ArgAt(i) ] : n \in 0..MaxArgs }

\* Error values of the host API (nil is NoError).
NoError == "nil"
ErrTrap == "export call failed"
ErrNotInitialized == "protoc not initialized, call Init() first"
ErrInitFailed == "protoc_init failed"
ErrInitStatus == "protoc_init returned error"
ErrMallocNull == "malloc returned null"
ErrWrite == "failed to write to memory"
ErrArgvNull == "malloc returned null for argv"
ErrRunFailed == "protoc_run failed"
ErrModClose == "module close failed"
ErrHostFunctions == "failed to register host functions"
ErrWasi == "failed to instantiate WASI"
ErrInstantiate == "failed to instantiate module"
ErrInitialize == "_initialize failed"

\* ------------------------------------------------------------ guest memory

\* Where the guest keeps the words it hands to plugin_communicate: the
\* program name, the input, and the four result slots.  The heap the guest
\* allocator serves lies above them.
GuestFrame ==
  [ prog |-> 1, input |-> 2, outPtr |-> 4, outLen |-> 8, errPtr |-> 12, errLen |-> 16 ]
HeapBase == GuestFrame.errLen + 4
Addrs == 0..(MemSize - 1)

\* api.Memory.Write: rejected unless the whole range lies in the memory.
CanAccess(addr, n) == addr + n <= MemSize
RECURSIVE MemWrite(_, _, _)
MemWrite(m, addr, data) ==
  IF data = << >> THEN m
  ELSE MemWrite([ m EXCEPT ![addr] = Head(data) ], addr + 1, Tail(data))
\* api.Memory.Read of n bytes at addr (the caller checks CanAccess).
MemRead(m, addr, n) == [ i \in 1..n |-> m[addr + i - 1] ]
\* The bytes of [addr, addr+n) that lie in the memory, cleared.
RECURSIVE MemZero(_, _, _)
MemZero(m, addr, n) ==
  IF n = 0 THEN m
  ELSE MemZero(IF addr \in Addrs THEN [ m EXCEPT ![addr] = 0 ] ELSE m, addr + 1, n - 1)

\* The guest allocator keeps a set of outstanding blocks [ptr, size].
Overlaps(heap, p, n) ==
  \E b \in heap : p < b.ptr + b.size /\ b.ptr < p + n
BlockSize(n) == IF n = 0 THEN 1 ELSE n
FitSet(heap, n) ==
  { p \in HeapBase..(MemSize - BlockSize(n)) : ~Overlaps(heap, p, BlockSize(n)) }
Min(S) == CHOOSE x \in S : \A y \in S : x <= y

\* What a call of the guest malloc export can produce: a trap, the null
\* pointer, the lowest free block that fits, or a block that runs one byte
\* past the end of the memory (so that the host's write into it is rejected).
MallocOutcomes == {"trap", "null", "fit", "tail"}

\* The guest side as the host helpers see and change it:
\*   mem     the linear memory, heap  the allocator's outstanding blocks,
\*   live    the pointers the host obtained from malloc and has not yet
\*           passed to free or handed over to the guest,
\*   mallocs the number of calls of the malloc export in the current operation,
\*   allocd  the non-null pointers those calls returned, in order,
\*   frees   the pointers passed to the free export in the current operation.
EmptyLog(g) == [ g EXCEPT !.mallocs = 0, !.allocd = << >>, !.frees = << >> ]

\* The pointer a call malloc(size) returns under outcome mo (0: null).
FirstFit(S) == IF S = {} THEN 0 ELSE Min(S)
TailFit(heap, size, p) ==
  IF size >= 1 /\ p >= HeapBase /\ ~Overlaps(heap, p, size) THEN p ELSE 0
GuestMalloc(heap, size, mo) ==
  CASE mo = "fit" -> FirstFit(FitSet(heap, size))
    [] mo = "tail" -> TailFit(heap, size, MemSize - size + 1)
    [] OTHER -> 0

\* What the host has after p.malloc.Call(ctx, size) returned ptr: [trap, ptr, g].
MallocResult(g, size, mo, ptr) ==
  IF mo = "trap" \/ ptr = 0
  THEN [ trap |-> (mo = "trap"), ptr |-> 0, g |-> [ g EXCEPT !.mallocs = @ + 1 ] ]
  ELSE [ trap |-> FALSE, ptr |-> ptr,
         g |-> [ g EXCEPT !.mallocs = @ + 1,
                          !.heap = @ \cup { [ ptr |-> ptr, size |-> BlockSize(size) ] },
                          !.live = @ \cup { ptr },
                          !.allocd = Append(@, ptr) ] ]
\* p.malloc.Call(ctx, size)
MallocCall(g, size, mo) == MallocResult(g, size, mo, GuestMalloc(g.heap, size, mo))

\* p.free.Call(ctx, ptr): the guest releases the block at ptr, and its content
\* is gone.  The host does not look at the result of the call.
SizeOf(blk) == IF blk = {} THEN 0 ELSE (CHOOSE b \in blk : TRUE).size
FreeBlock(g, ptr, blk) ==
  [ g EXCEPT !.frees = Append(@, ptr), !.live = @ \ { ptr },
             !.heap = @ \ blk, !.mem = MemZero(@, ptr, SizeOf(blk)) ]
FreeCall(g, ptr) == FreeBlock(g, ptr, { b \in g.heap : b.ptr = ptr })

\* ------------------------------------------------------------ memory helpers

\* Protoc.freePtr
freePtr(g, ptr) == IF ptr # 0 THEN FreeCall(g, ptr) ELSE g

\* allocBytes returning the pointer without writing the data.
allocBytesNoWrite(r, data) ==
  IF r.trap THEN [ err |-> ErrTrap, ptr |-> 0, g |-> r.g ]
  ELSE IF r.ptr = 0 THEN [ err |-> ErrMallocNull, ptr |-> 0, g |-> r.g ]
  ELSE [ err |-> NoError, ptr |-> r.ptr, g |-> r.g ]
\* Protoc.allocBytes after the call of malloc returned r: [err, ptr, g]
allocBytesWrite(r, data) ==
  IF r.trap THEN [ err |-> ErrTrap, ptr |-> 0, g |-> r.g ]
  ELSE IF r.ptr = 0 THEN [ err |-> ErrMallocNull, ptr |-> 0, g |-> r.g ]
  ELSE IF ~CanAccess(r.ptr, Len(data))
       THEN [ err |-> ErrWrite, ptr |-> 0, g |-> FreeCall(r.g, r.ptr) ]
  ELSE [ err |-> NoError, ptr |-> r.ptr,
         g |-> [ r.g EXCEPT !.mem = MemWrite(@, r.ptr, data) ] ]
\* Protoc.allocBytes
allocBytes(g, data, mo) == allocBytesWrite(MallocCall(g, Len(data), mo), data)

\* Protoc.allocString: the bytes of s and a terminating zero byte.
allocString(g, s, mo) == allocBytes(g, Append(s, 0), mo)

\* Protoc.writePtr and Protoc.writeUint32: four little-endian bytes at addr;
\* a rejected write is not looked at.
writePtr(m, addr, value) ==
  IF CanAccess(addr, 4) THEN MemWrite(m, addr, PutUint32(value)) ELSE m
writeUint32(m, addr, value) ==
  IF CanAccess(addr, 4) THEN MemWrite(m, addr, PutUint32(value)) ELSE m

\* One pass of the loop of allocArgv: entry i (from 0) goes to argvPtr + 4*i;
\* a rejected write is not looked at.
WriteArgvEntry(m, addr, ptr) ==
  IF CanAccess(addr, 4) THEN MemWrite(m, addr, PutUint32(ptr)) ELSE m
RECURSIVE WriteArgv(_, _, _, _)
WriteArgv(m, argvPtr, ptrs, i) ==
  IF i > Len(ptrs) THEN m
  ELSE WriteArgv(WriteArgvEntry(m, argvPtr + (i - 1) * 4, ptrs[i]), argvPtr, ptrs, i + 1)

\* Protoc.allocArgv after the call of malloc returned r: [err, ptr, g]
allocArgvWrite(r, ptrs) ==
  IF r.trap THEN [ err |-> ErrTrap, ptr |-> 0, g |-> r.g ]
  ELSE IF r.ptr = 0 THEN [ err |-> ErrArgvNull, ptr |-> 0, g |-> r.g ]
  ELSE [ err |-> NoError, ptr |-> r.ptr,
         g |-> [ r.g EXCEPT !.mem = WriteArgv(@, r.ptr, ptrs, 1) ] ]
\* Protoc.allocArgv
allocArgv(g, ptrs, mo) == allocArgvWrite(MallocCall(g, Len(ptrs) * 4, mo), ptrs)

\* for _, ptr := range ptrs { p.freePtr(ctx, ptr) }
RECURSIVE FreeEach(_, _, _)
FreeEach(g, ptrs, i) ==
  IF i > Len(ptrs) THEN g
  ELSE FreeEach(freePtr(g, ptrs[i]), ptrs, i + 1)

\* The first loop of Run: allocate argument i (r is what allocString
\* returned), and on an error free the arguments allocated before it.
\* [err, ptrs, g]
RECURSIVE AllocArgs(_, _, _, _, _)
RECURSIVE AllocArgsNext(_, _, _, _, _)
AllocArgsNext(r, args, mos, i, ptrs) ==
  IF r.err # NoError
  THEN [ err |-> r.err, ptrs |-> ptrs, g |-> FreeEach(r.g, ptrs, 1) ]
  ELSE AllocArgs(r.g, args, mos, i + 1, Append(ptrs, r.ptr))
AllocArgs(g, args, mos, i, ptrs) ==
  IF i > Len(args) THEN [ err |-> NoError, ptrs |-> ptrs, g |-> g ]
  ELSE AllocArgsNext(allocString(g, args[i], mos[i]), args, mos, i, ptrs)

\* RunFree without the free of the pointer array.
RunFreeArgsOnly(g, argvPtr, argPtrs) == FreeEach(g, argPtrs, 1)
\* RunFree passing the pointer array to free twice.
RunFreeArgvTwice(g, argvPtr, argPtrs) ==
  FreeEach(freePtr(freePtr(g, argvPtr), argvPtr), argPtrs, 1)
\* Protoc.Run, after protoc_run returned: free the pointer array, then every
\* argument string.
RunFree(g, argvPtr, argPtrs) == FreeEach(freePtr(g, argvPtr), argPtrs, 1)

\* ------------------------------------------------------------ state

VARIABLES
  initialized,  \* p.initialized
  mu,           \* p.mu: the thread holding it, or Unlocked
  modClosed,    \* whether p.mod has been closed in the runtime
  g,            \* the guest's memory and allocator, with the operation's log
  handed,       \* the buffers the callback handed to the guest during this Run
  cb,           \* what the last plugin callback of this protoc_run did
  pc,           \* where each host thread is
  op,           \* the call each host thread is making, once it has the mutex
  ret,          \* what that call is about to return
  loc,          \* Run's locals once the setup is done: args, argPtrs, argvPtr,
                \* the argument count argc it passes to protoc_run, and what
                \* the call of protoc_run returned (res); for Init, what the
                \* call of protoc_init returned (res)
  calls,        \* how often the bodies of Init and Close ran, how often each
                \* guest export and mod.Close were called, how often
                \* protoc_init returned 0, how often protoc_destroy returned
                \* an error, and whether a call of protoc_run did (runFailed,
                \* 0 or 1)
  nOps,         \* how many calls the host threads have issued
  runtime,      \* the names of the modules instantiated in the wazero runtime r
  made          \* the further NewProtoc calls on r: how many, and what the
                \* last one returned

vars ==
  << initialized, mu, modClosed, g, handed, cb, pc, op, ret, loc, calls, nOps,
     runtime, made >>

NoOp == [ name |-> "none", args |-> << >> ]
NoRet == [ code |-> 0, err |-> "none" ]
\* No call of protoc_run or protoc_init has returned.
NoRes == [ trap |-> FALSE, val |-> << >> ]
NoLoc == [ args |-> << >>, argPtrs |-> << >>, argvPtr |-> 0, argc |-> 0, res |-> NoRes ]
NoCb == [ n |-> 0, status |-> EncodeI32(0), handler |-> FALSE, herr |-> FALSE, data |-> << >>,
          aerr |-> NoError, ptr |-> 0, words |-> << >> ]
Ops ==
  { [ name |-> "Init", args |-> << >> ], [ name |-> "Close", args |-> << >> ] }
    \cup { [ name |-> "Run", args |-> a ] : a \in ArgLists }

\* The modules NewProtocWithModule instantiates in the runtime, in this order.
ImportModuleProtoc == "protoc"
WasiModule == "wasi_snapshot_preview1"
ProtocWASMFilename == "protoc.wasm"
\* Instantiating a module under a name: the runtime refuses a name that is
\* already instantiated in it.  [ok, runtime]
Instantiate(rt, name) ==
  IF name \in rt THEN [ ok |-> FALSE, runtime |-> rt ]
  ELSE [ ok |-> TRUE, runtime |-> rt \cup { name } ]
\* api.Module.Close removes the module from the runtime.
ModuleClose(rt, name) == rt \ { name }
\* The steps of NewProtocWithModule on a runtime with the modules rt, where
\* trap says whether the call of _initialize fails: [err, runtime].  (The
\* embedded module has every export the constructor binds.)
NewProtocGuest(m, trap) ==
  IF ~m.ok THEN [ err |-> ErrInstantiate, runtime |-> m.runtime ]
  ELSE IF trap
       THEN [ err |-> ErrInitialize,
              runtime |-> ModuleClose(m.runtime, ProtocWASMFilename) ]
  ELSE [ err |-> NoError, runtime |-> m.runtime ]
NewProtocWasi(w, trap) ==
  IF ~w.ok THEN [ err |-> ErrWasi, runtime |-> w.runtime ]
  ELSE NewProtocGuest(Instantiate(w.runtime, ProtocWASMFilename), trap)
NewProtocHost(h, trap) ==
  IF ~h.ok THEN [ err |-> ErrHostFunctions, runtime |-> h.runtime ]
  ELSE NewProtocWasi(Instantiate(h.runtime, WasiModule), trap)
NewProtocOn(rt, trap) == NewProtocHost(Instantiate(rt, ImportModuleProtoc), trap)

\* The runtime before the instance was created: wazero.NewRuntime(ctx).
NewRuntime == {}
\* No further NewProtoc call has been made.
NoMade == [ n |-> 0, err |-> "none" ]

\* The state NewProtocWithModule returns: the module is instantiated, the
\* exports are bound, the instance is not initialized and nobody holds p.mu.
NewProtocWithModule ==
  /\ initialized = FALSE
  /\ mu = Unlocked
  /\ modClosed = FALSE
  /\ g = [ mem |-> [ a \in Addrs |-> 0 ], heap |-> {}, live |-> {},
           mallocs |-> 0, allocd |-> << >>, frees |-> << >> ]
  /\ handed = {}
  /\ cb = NoCb
  /\ pc = [ t \in Threads |-> "idle" ]
  /\ op = [ t \in Threads |-> NoOp ]
  /\ ret = [ t \in Threads |-> NoRet ]
  /\ loc = [ t \in Threads |-> NoLoc ]
  /\ calls = [ Init |-> 0, Close |-> 0, protocInit |-> 0, initOk |-> 0, protocRun |-> 0,
               protocDestroy |-> 0, modClose |-> 0, runFailed |-> 0, destroyFailed |-> 0 ]
  /\ nOps = 0
  /\ runtime = NewProtocOn(NewRuntime, FALSE).runtime
  /\ made = NoMade

\* ------------------------------------------------------------ environment

\* The 32-bit status words a guest export returns: 0, 1 and -1.
StatusWords == { EncodeI32(0), EncodeI32(1), EncodeI32(-1) }
\* api.Function.Call on an export: it returns an error (a trap, or a module
\* that is closed: the runtime fails every call on a closed module) or the
\* export's result word.
ExportResults(closed) ==
  IF closed THEN { [ trap |-> TRUE, val |-> EncodeI32(0) ] }
  ELSE { [ trap |-> TRUE, val |-> EncodeI32(0) ] } \cup { [ trap |-> FALSE, val |-> v ] : v \in StatusWords }

\* ------------------------------------------------------------ host calls

\* A host thread calls Init, Run(args) or Close: each of them starts with
\* p.mu.Lock(), and nothing depends on which one it is until the thread has
\* the mutex, so the call is drawn in Lock.
Call(t) ==
  /\ pc[t] = "idle"
  /\ nOps < MaxOps
  /\ pc' = [ pc EXCEPT ![t] = "lock" ]
  /\ nOps' = nOps + 1
  /\ UNCHANGED << initialized, mu, modClosed, g, handed, cb, op, ret, loc, calls, runtime, made >>

\* A further NewProtoc(ctx, r, cfg) on the runtime of the instance.  The
\* constructor takes no lock and touches nothing of the existing instance but
\* the runtime.
NewProtoc(t) ==
  /\ pc[t] = "idle"
  /\ nOps < MaxOps
  /\ \E r \in ExportResults(FALSE) :
       /\ runtime' = NewProtocOn(runtime, r.trap).runtime
       /\ made' = [ n |-> made.n + 1, err |-> NewProtocOn(runtime, r.trap).err ]
  /\ nOps' = nOps + 1
  /\ UNCHANGED << initialized, mu, modClosed, g, handed, cb, pc, op, ret, loc, calls >>

\* A Lock that never waits.
LockFreeAlways(m) == TRUE
\* sync.Mutex: Lock returns only when no thread holds the mutex.
LockFree(m) == m = Unlocked

\* p.mu.Lock(): blocks while another thread holds the mutex.  The thread goes
\* on with the body of the call o it made.
Lock(t) ==
  /\ pc[t] = "lock"
  /\ LockFree(mu)
  /\ mu' = t
  /\ pc' = [ pc EXCEPT ![t] = "body" ]
  /\ \E o \in Ops : op' = [ op EXCEPT ![t] = o ]
  /\ UNCHANGED << initialized, modClosed, g, handed, cb, ret, loc, calls, nOps, runtime, made >>

\* An Unlock that leaves the mutex with the thread.
AfterUnlockHeld(t) == t
\* p.mu.Unlock() by thread t: nobody holds the mutex.
AfterUnlock(t) == Unlocked

\* defer p.mu.Unlock(): the call returns ret[t] to its caller.
Unlock(t) ==
  /\ pc[t] = "unlock"
  /\ mu' = AfterUnlock(t)
  /\ pc' = [ pc EXCEPT ![t] = "idle" ]
  /\ op' = [ op EXCEPT ![t] = NoOp ]
  /\ ret' = [ ret EXCEPT ![t] = NoRet ]
  /\ g' = EmptyLog(g)
  /\ handed' = {}
  /\ loc' = [ loc EXCEPT ![t] = NoLoc ]
  /\ UNCHANGED << initialized, modClosed, cb, calls, nOps, runtime, made >>

\* InitBody without the early return for an initialized instance.
InitBodyNoCheck(init, r) ==
  IF r.trap THEN [ initialized |-> init, err |-> ErrInitFailed, called |-> TRUE ]
  ELSE IF Int32(r.val) # 0
       THEN [ initialized |-> init, err |-> ErrInitStatus, called |-> TRUE ]
  ELSE [ initialized |-> TRUE, err |-> NoError, called |-> TRUE ]
\* InitBody setting p.initialized before it looks at the result of the call.
InitBodyFlagFirst(init, r) ==
  IF init THEN [ initialized |-> TRUE, err |-> NoError, called |-> FALSE ]
  ELSE IF r.trap THEN [ initialized |-> TRUE, err |-> ErrInitFailed, called |-> TRUE ]
  ELSE IF Int32(r.val) # 0
       THEN [ initialized |-> TRUE, err |-> ErrInitStatus, called |-> TRUE ]
  ELSE [ initialized |-> TRUE, err |-> NoError, called |-> TRUE ]
\* The body of Protoc.Init for the result r of the call of the protoc_init
\* export: [initialized, err, called], where called says whether the export
\* was called.
InitBody(init, r) ==
  IF init THEN [ initialized |-> TRUE, err |-> NoError, called |-> FALSE ]
  ELSE IF r.trap THEN [ initialized |-> FALSE, err |-> ErrInitFailed, called |-> TRUE ]
  ELSE IF Int32(r.val) # 0
       THEN [ initialized |-> FALSE, err |-> ErrInitStatus, called |-> TRUE ]
  ELSE [ initialized |-> TRUE, err |-> NoError, called |-> TRUE ]

InitDone(t, b) ==
  /\ initialized' = b.initialized
  /\ ret' = [ ret EXCEPT ![t] = [ code |-> 0, err |-> b.err ] ]
  /\ calls' = [ calls EXCEPT !.Init = @ + 1,
                              !.protocInit = IF b.called THEN @ + 1 ELSE @,
                              !.initOk = IF b.called /\ b.initialized THEN @ + 1 ELSE @ ]

\* Protoc.Init
Init(t) ==
  /\ pc[t] = "body"
  /\ op[t].name = "Init"
  /\ \E r \in ExportResults(modClosed) :
       /\ InitDone(t, InitBody(initialized, r))
       /\ loc' = [ loc EXCEPT ![t].res = IF initialized THEN NoRes ELSE r ]
  /\ pc' = [ pc EXCEPT ![t] = "unlock" ]
  /\ UNCHANGED << mu, modClosed, g, handed, cb, op, nOps, runtime, made >>

\* CloseDestroy without the reset of p.initialized.
CloseDestroyKeepsFlag(init) ==
  [ initialized |-> init, destroys |-> IF init THEN 1 ELSE 0 ]
\* CloseDestroy without the test of p.initialized.
CloseDestroyAlways(init) == [ initialized |-> FALSE, destroys |-> 1 ]
\* CloseDestroy with the test of p.initialized inverted.
CloseDestroyInverted(init) ==
  IF init THEN [ initialized |-> init, destroys |-> 0 ]
  ELSE [ initialized |-> FALSE, destroys |-> 1 ]
\* The first if of Protoc.Close: [initialized, destroys], where destroys is
\* the number of calls of the protoc_destroy export.
CloseDestroy(init) ==
  IF init THEN [ initialized |-> FALSE, destroys |-> 1 ]
  ELSE [ initialized |-> init, destroys |-> 0 ]

\* p.mod.Close(ctx): closing the module may fail; closing a closed module
\* does nothing and returns nil.
ModCloseResults(closed) == IF closed THEN { NoError } ELSE { NoError, ErrModClose }

\* Close returning the error of the protoc_destroy call.
CloseErrorOfDestroy(failed, e) == IF failed THEN ErrTrap ELSE e
\* What Close returns: the result e of p.mod.Close; the result of
\* p.protocDestroy.Call (failed: it was called and returned an error) is dropped.
CloseError(failed, e) == e

\* The effect of Close, for what CloseDestroy did (c), whether the call of
\* protoc_destroy failed, and the result e of p.mod.Close.
CloseDone(t, c, failed, e) ==
  /\ initialized' = c.initialized
  /\ calls' = [ calls EXCEPT !.Close = @ + 1,
                              !.protocDestroy = @ + c.destroys,
                              !.destroyFailed = IF failed THEN @ + 1 ELSE @,
                              !.modClose = @ + 1 ]
  /\ ret' = [ ret EXCEPT ![t] = [ code |-> 0, err |-> CloseError(failed, e) ] ]

\* Protoc.Close (p.protocDestroy and p.mod are never nil after construction)
Close(t) ==
  /\ pc[t] = "body"
  /\ op[t].name = "Close"
  /\ \E d \in ExportResults(modClosed), e \in ModCloseResults(modClosed) :
       CloseDone(t, CloseDestroy(initialized),
                 CloseDestroy(initialized).destroys = 1 /\ d.trap, e)
  /\ modClosed' = TRUE
  /\ runtime' = ModuleClose(runtime, ProtocWASMFilename)
  /\ pc' = [ pc EXCEPT ![t] = "unlock" ]
  /\ UNCHANGED << mu, g, handed, cb, op, loc, nOps, made >>

\* The argument setup of Protoc.Run: every argument string (a is what the
\* first loop returned), then the pointer array (v is what allocArgv
\* returned); an error frees what was allocated.  [err, argPtrs, argvPtr, g]
RunSetupArgv(a, v) ==
  IF v.err # NoError
  THEN [ err |-> v.err, argPtrs |-> a.ptrs, argvPtr |-> 0, g |-> FreeEach(v.g, a.ptrs, 1) ]
  ELSE [ err |-> NoError, argPtrs |-> a.ptrs, argvPtr |-> v.ptr, g |-> v.g ]
RunSetupArgs(a, mo) ==
  IF a.err # NoError
  THEN [ err |-> a.err, argPtrs |-> a.ptrs, argvPtr |-> 0, g |-> a.g ]
  ELSE RunSetupArgv(a, allocArgv(a.g, a.ptrs, mo))
RunSetup(g0, args, mos) ==
  RunSetupArgs(AllocArgs(g0, args, mos, 1, << >>), mos[Len(args) + 1])

\* if len(args) == 0 { args = []string{"protoc"} }
RunArgs(args) == IF Len(args) = 0 THEN DefaultArgs ELSE args

\* Protoc.Run once the argument setup returned s: return its error, or call
\* the protoc_run export.
RunCall(t, args, s) ==
  /\ g' = s.g
  /\ IF s.err # NoError
     THEN /\ ret' = [ ret EXCEPT ![t] = [ code |-> 1, err |-> s.err ] ]
          /\ pc' = [ pc EXCEPT ![t] = "unlock" ]
          /\ UNCHANGED << loc, calls >>
     ELSE /\ loc' = [ loc EXCEPT ![t] =
                        [ args |-> args, argPtrs |-> s.argPtrs, argvPtr |-> s.argvPtr,
                          argc |-> Len(args), res |-> NoRes ] ]
          /\ calls' = [ calls EXCEPT !.protocRun = @ + 1 ]
          /\ pc' = [ pc EXCEPT ![t] = "guest" ]
          /\ UNCHANGED ret

\* Run refusing every call.
RunRefusedAlways(init) == TRUE
\* Run without the initialized check.
RunRefusedNever(init) == FALSE
\* if !p.initialized { return 1, errors.New(...) }
RunRefused(init) == ~init

\* Protoc.Run up to the call of the protoc_run export.
Run(t) ==
  /\ pc[t] = "body"
  /\ op[t].name = "Run"
  /\ IF RunRefused(initialized)
     THEN /\ ret' = [ ret EXCEPT ![t] = [ code |-> 1, err |-> ErrNotInitialized ] ]
          /\ pc' = [ pc EXCEPT ![t] = "unlock" ]
          /\ UNCHANGED << g, loc, calls >>
     ELSE \E mos \in [ 1..(Len(RunArgs(op[t].args)) + 1) -> MallocOutcomes ] :
            RunCall(t, RunArgs(op[t].args), RunSetup(g, RunArgs(op[t].args), mos))
  /\ UNCHANGED << initialized, mu, modClosed, handed, cb, op, nOps, runtime, made >>

\* ------------------------------------------------------------ plugin callback

\* The program name and the input the guest relays, and what the plugin
\* handler can return: output bytes (possibly none) or an error message.
ProgramName == << 112 >>
PluginInput == << 5 >>
HandlerResults ==
  { [ err |-> FALSE, data |-> << >> ], [ err |-> FALSE, data |-> << 7 >> ],
    [ err |-> TRUE, data |-> << 101 >> ] }

\* The slot addresses the guest passes: its frame's, or with a slot (the
\* output-pointer slot) reaching past the end of the memory.
SlotLayouts ==
  { GuestFrame, [ GuestFrame EXCEPT !.outPtr = MemSize - 2 ] }
\* The nine words of one call of plugin_communicate.
Words(pp, ip, s) ==
  [ programPtr |-> pp, programLen |-> Len(ProgramName), searchPath |-> 1,
    inputPtr |-> ip, inputLen |-> Len(PluginInput),
    outputPtrPtr |-> s.outPtr, outputLenPtr |-> s.outLen,
    errorPtrPtr |-> s.errPtr, errorLenPtr |-> s.errLen ]
\* The words the guest passes: its frame's addresses with one of the slot
\* layouts, or a program name or an input that lies outside the memory.
CallbackWords ==
  { Words(GuestFrame.prog, GuestFrame.input, s) : s \in SlotLayouts }
    \cup { Words(MemSize, GuestFrame.input, GuestFrame),
           Words(GuestFrame.prog, MemSize, GuestFrame) }

\* The guest's frame before it calls plugin_communicate: the program name,
\* the input, and four zeroed result slots.
GuestFrameSetup(m) ==
  MemWrite(MemWrite(MemZero(m, GuestFrame.outPtr, 16),
                    GuestFrame.prog, ProgramName),
           GuestFrame.input, PluginInput)

\* The pointer and the length written into a pair of slots.
WriteSlots(m, ptrAddr, ptr, lenAddr, len) ==
  writeUint32(writePtr(m, ptrAddr, ptr), lenAddr, len)

\* Protoc.hostPluginCommunicate after the handler returned h and allocBytes
\* of its error message or output returned r: [status, handler, aerr, ptr, g]
pluginResult(r, w, h) ==
  IF h.err
  THEN [ status |-> EncodeI32(1), handler |-> TRUE, aerr |-> r.err, ptr |-> r.ptr,
         g |-> [ r.g EXCEPT !.mem =
                   WriteSlots(IF r.err = NoError
                              THEN WriteSlots(@, w.errorPtrPtr, r.ptr,
                                              w.errorLenPtr, Len(h.data))
                              ELSE @,
                              w.outputPtrPtr, 0, w.outputLenPtr, 0) ] ]
  ELSE IF r.err # NoError
  THEN [ status |-> EncodeI32(-1), handler |-> TRUE, aerr |-> r.err, ptr |-> 0, g |-> r.g ]
  ELSE [ status |-> EncodeI32(0), handler |-> TRUE, aerr |-> r.err, ptr |-> r.ptr,
         g |-> [ r.g EXCEPT !.mem =
                   WriteSlots(WriteSlots(@, w.outputPtrPtr, r.ptr,
                                         w.outputLenPtr, Len(h.data)),
                              w.errorPtrPtr, 0, w.errorLenPtr, 0) ] ]

\* hostPluginCommunicate with the input read checked after the handler ran.
hostPluginCommunicateLateCheck(g0, w, h, mo) ==
  IF ~CanAccess(w.programPtr, w.programLen)
  THEN [ status |-> EncodeI32(-1), handler |-> FALSE, aerr |-> NoError, ptr |-> 0, g |-> g0 ]
  ELSE IF ~CanAccess(w.inputPtr, w.inputLen)
  THEN [ status |-> EncodeI32(-1), handler |-> TRUE, aerr |-> NoError, ptr |-> 0, g |-> g0 ]
  ELSE pluginResult(allocBytes(g0, h.data, mo), w, h)
\* hostPluginCommunicate without the check of the read of the input.
hostPluginCommunicateNoInputCheck(g0, w, h, mo) ==
  IF ~CanAccess(w.programPtr, w.programLen)
  THEN [ status |-> EncodeI32(-1), handler |-> FALSE, aerr |-> NoError, ptr |-> 0, g |-> g0 ]
  ELSE pluginResult(allocBytes(g0, h.data, mo), w, h)
\* Protoc.hostPluginCommunicate for the words w, the handler's result h and
\* the outcome mo of the malloc call: [status, handler, aerr, ptr, g], where handler
\* says whether p.pluginHandler.Communicate was called.
hostPluginCommunicate(g0, w, h, mo) ==
  IF ~CanAccess(w.programPtr, w.programLen)
  THEN [ status |-> EncodeI32(-1), handler |-> FALSE, aerr |-> NoError, ptr |-> 0, g |-> g0 ]
  ELSE IF ~CanAccess(w.inputPtr, w.inputLen)
  THEN [ status |-> EncodeI32(-1), handler |-> FALSE, aerr |-> NoError, ptr |-> 0, g |-> g0 ]
  ELSE pluginResult(allocBytes(g0, h.data, mo), w, h)

\* The callback's effect on the state: r is what hostPluginCommunicate
\* returned.  A buffer the callback allocated belongs to the guest from then on.
\* A handler that was not called has returned nothing.
CallbackDone(r, w, h) ==
  /\ g' = [ r.g EXCEPT !.live = @ \ { r.ptr } ]
  /\ handed' = IF r.ptr = 0 THEN handed ELSE handed \cup { r.ptr }
  /\ cb' = [ n |-> cb.n + 1, status |-> r.status, handler |-> r.handler,
             herr |-> r.handler /\ h.err, data |-> IF r.handler THEN h.data ELSE << >>,
             aerr |-> r.aerr, ptr |-> r.ptr,
             words |-> w ]

\* hostPluginCommunicate calling p.mu.Lock() itself: the thread that is inside
\* Run waits for the mutex it holds.
AfterCallbackRelock(t) == "lock"
\* hostPluginCommunicate never touches p.mu: when it returns, the thread is
\* back in the guest's protoc_run.
AfterCallback(t) == "guest"

\* During protoc_run the guest calls plugin_communicate; the callback runs on
\* the thread that is inside Run.
PluginCallback(t) ==
  /\ pc[t] = "guest"
  /\ cb.n < MaxCallbacks
  /\ \E w \in CallbackWords, h \in HandlerResults, mo \in MallocOutcomes :
       CallbackDone(hostPluginCommunicate([ g EXCEPT !.mem = GuestFrameSetup(@) ], w, h, mo),
                    w, h)
  /\ pc' = [ pc EXCEPT ![t] = AfterCallback(t) ]
  /\ UNCHANGED << initialized, mu, modClosed, op, ret, loc, calls, nOps, runtime, made >>

\* The guest releases the buffers and the frame it owns when protoc_run ends.
GuestFreeBlock(g0, p, blk) ==
  [ g0 EXCEPT !.heap = @ \ blk, !.mem = MemZero(@, p, SizeOf(blk)) ]
GuestFree(g0, p) == GuestFreeBlock(g0, p, { b \in g0.heap : b.ptr = p })
RECURSIVE GuestFreeAll(_, _)
GuestFreeAll(g0, bufs) ==
  IF bufs = {} THEN g0
  ELSE GuestFreeAll(GuestFree(g0, Min(bufs)), bufs \ { Min(bufs) })
GuestCleanup(g0, bufs) ==
  GuestFreeAll([ g0 EXCEPT !.mem = MemZero(@, 0, HeapBase) ], bufs)

\* RunResult turning a non-zero exit status into an error.
RunResultNonZeroError(r) ==
  IF r.trap \/ Int32(r.val) # 0 THEN [ code |-> 1, err |-> ErrRunFailed ]
  ELSE [ code |-> 0, err |-> NoError ]
\* return 1, fmt.Errorf("protoc_run failed: %w", err), or
\* return int(int32(results[0])), nil
RunResult(r) ==
  IF r.trap THEN [ code |-> 1, err |-> ErrRunFailed ]
  ELSE [ code |-> Int32(r.val), err |-> NoError ]

\* Protoc.Run from the return of the protoc_run export: free the memory,
\* then return the exit code or the error.
RunReturn(t) ==
  /\ pc[t] = "guest"
  /\ g' = RunFree(GuestCleanup(g, handed), loc[t].argvPtr, loc[t].argPtrs)
  /\ \E r \in ExportResults(modClosed) :
       /\ ret' = [ ret EXCEPT ![t] = RunResult(r) ]
       /\ loc' = [ loc EXCEPT ![t].res = r ]
       /\ calls' = [ calls EXCEPT !.runFailed = IF r.trap THEN 1 ELSE @ ]
  /\ cb' = NoCb
  /\ pc' = [ pc EXCEPT ![t] = "unlock" ]
  /\ UNCHANGED << initialized, mu, modClosed, handed, op, nOps, runtime, made >>

\* ------------------------------------------------------------ specification

Next ==
  \E t \in Threads :
    \/ Call(t)
    \/ NewProtoc(t)
    \/ Lock(t)
    \/ Init(t)
    \/ Run(t)
    \/ PluginCallback(t)
    \/ RunReturn(t)
    \/ Close(t)
    \/ Unlock(t)

Spec == NewProtocWithModule /\ [][Next]_vars

\* The scheduling the liveness of the lock rests on: a thread that is not
\* blocked takes its next step, every call of a guest export returns (the
\* guest makes finitely many callbacks, each of which returns), and a thread
\* waiting in p.mu.Lock() gets the mutex if it is free again and again
\* (sync.Mutex hands the mutex to a starving waiter).
\* The call of protoc_run by thread t returns: the step RunReturn(t), told by
\* what it does to pc (no other step takes a thread from "guest" to "unlock",
\* and RunReturn(t) is enabled whenever pc[t] = "guest").
ProtocRunReturns(t) == pc[t] = "guest" /\ pc' = [ pc EXCEPT ![t] = "unlock" ]
Fairness ==
  \A t \in Threads :
    /\ SF_vars(Lock(t))
    /\ WF_vars(Init(t))
    /\ WF_vars(Run(t))
    /\ WF_pc(ProtocRunReturns(t))
    /\ WF_vars(Close(t))
    /\ WF_vars(Unlock(t))
FairSpec == Spec /\ Fairness

\* ------------------------------------------------------------ claims

Range(q) == { q[i] : i \in DOMAIN q }
\* A thread between its Lock and its Unlock.
InCritical(t) == pc[t] \in { "body", "guest", "unlock" }
\* Thread t is about to return from a call of the operation name.
Returning(t, name) == pc[t] = "unlock" /\ op[t].name = name
\* The errors Run's argument setup returns.
SetupErrors == { ErrTrap, ErrMallocNull, ErrWrite, ErrArgvNull }
\* The number a result slot holds, as the guest reads it (-1: the slot is not
\* in the memory).
SlotValue(addr) ==
  IF CanAccess(addr, 4) THEN Uint32At(MemRead(g.mem, addr, 4)) ELSE -1
SlotsInMemory(w) ==
  /\ CanAccess(w.outputPtrPtr, 4) /\ CanAccess(w.outputLenPtr, 4)
  /\ CanAccess(w.errorPtrPtr, 4) /\ CanAccess(w.errorLenPtr, 4)
ReadsInMemory(w) ==
  CanAccess(w.programPtr, w.programLen) /\ CanAccess(w.inputPtr, w.inputLen)
\* The last callback allocated a new buffer at cb.ptr holding cb.data, and
\* the guest owns it.
NewBufferHoldsData ==
  /\ cb.ptr # 0
  /\ g.allocd # << >> /\ g.allocd[Len(g.allocd)] = cb.ptr
  /\ cb.ptr \in handed
  /\ \E b \in g.heap : b.ptr = cb.ptr /\ b.size >= Len(cb.data)
  /\ CanAccess(cb.ptr, Len(cb.data))
  /\ MemRead(g.mem, cb.ptr, Len(cb.data)) = cb.data

\* C1: when a Run call with a non-empty argument list on an initialized
\* instance is about to return (with the guest's status, a trap of
\* protoc_run, or a setup error), every pointer it obtained from malloc has
\* been passed to free, except the buffers a callback handed to the guest:
\* no host-made allocation is outstanding, as before the call.
C1_RunFreesAll ==
  \A t \in Threads :
    (Returning(t, "Run") /\ op[t].args # << >> /\ ret[t].err # ErrNotInitialized)
      => /\ g.live = {}
         /\ (Range(g.allocd) \ handed) \subseteq Range(g.frees)
C1_Witness ==
  \E t \in Threads :
    /\ Returning(t, "Run") /\ Len(op[t].args) = 2
    /\ ret[t].err = ErrRunFailed
    /\ Len(g.frees) = 3 /\ handed # {}

\* C2: a Run call on an instance on which no Init has succeeded returns the
\* not-initialized error with code 1, having called neither malloc nor free
\* nor protoc_run, and the instance is still not initialized.
C2_RunBeforeInit ==
  \A t \in Threads :
    (Returning(t, "Run") /\ calls.initOk = 0)
      => /\ ret[t] = [ code |-> 1, err |-> ErrNotInitialized ]
         /\ g.mallocs = 0 /\ g.allocd = << >> /\ g.frees = << >>
         /\ calls.protocRun = 0
         /\ ~initialized
C2_Witness ==
  \E t \in Threads :
    Returning(t, "Run") /\ calls.initOk = 0 /\ calls.protocInit >= 1

\* C3: no two threads are between Lock and Unlock of Init, Run or Close at
\* the same time, and a thread that is there holds p.mu.
C3_MutualExclusion ==
  /\ \A t1, t2 \in Threads : (t1 # t2) => ~(InCritical(t1) /\ InCritical(t2))
  /\ \A t \in Threads : InCritical(t) => mu = t
C3_Witness ==
  \E t1, t2 \in Threads : pc[t1] = "guest" /\ cb.n >= 1 /\ pc[t2] = "lock"

\* C4: once a Close call has closed the module, the instance is never
\* initialized again, no Run reaches the guest, and every Run returns the
\* not-initialized error.
C4_DestroyedTerminal ==
  modClosed =>
    /\ ~initialized
    /\ \A t \in Threads :
         /\ pc[t] # "guest"
         /\ Returning(t, "Run") => ret[t].err = ErrNotInitialized
C4_Witness ==
  \E t \in Threads :
    /\ modClosed /\ calls.initOk = 1 /\ calls.protocInit = 2
    /\ Returning(t, "Init") /\ ret[t].err = ErrInitFailed

C6_InitIdempotent ==
  [][ \A t \in Threads :
        (pc[t] = "body" /\ op[t].name = "Init" /\ initialized /\ pc'[t] = "unlock")
          => /\ initialized'
             /\ ret'[t].err = NoError
             /\ calls'.protocInit = calls.protocInit ]_vars
C6_Witness ==
  \E t \in Threads :
    /\ Returning(t, "Init") /\ ret[t].err = NoError /\ initialized
    /\ calls.Init = 2 /\ calls.protocInit = 1

\* C7 as claimed: when an allocation of Run's argument setup fails or a write
\* into a new block is rejected, protoc_run is not called (so while the guest
\* runs, every entry of the pointer array was written), Run returns the
\* error, and everything the call allocated has been freed.
C7_SetupFailureUnwinds ==
  \A t \in Threads :
    /\ (pc[t] = "guest")
         => \A i \in 1..Len(loc[t].argPtrs) :
              CanAccess(loc[t].argvPtr + 4 * (i - 1), 4)
    /\ (Returning(t, "Run") /\ ret[t].err \in SetupErrors)
         => /\ g.live = {}
            /\ Range(g.allocd) \subseteq Range(g.frees)
            /\ loc[t] = NoLoc

\* C8 as claimed: when the callback returns 1 (and the four slots lie in the
\* memory), the error slots hold the pointer and the length of a new buffer
\* with the error message, and the output slots hold 0.
C8_ErrorSlotsPopulated ==
  (cb.n >= 1 /\ cb.status = EncodeI32(1) /\ SlotsInMemory(cb.words))
    => /\ SlotValue(cb.words.errorPtrPtr) # 0
       /\ SlotValue(cb.words.errorPtrPtr) = cb.ptr
       /\ SlotValue(cb.words.errorLenPtr) = Len(cb.data)
       /\ NewBufferHoldsData
       /\ SlotValue(cb.words.outputPtrPtr) = 0
       /\ SlotValue(cb.words.outputLenPtr) = 0

\* C9 as claimed: when the callback returns -1, the handler was not called.
C9_Original ==
  (cb.n >= 1 /\ cb.status = EncodeI32(-1)) => ~cb.handler
\* C9, amended: when the callback returns -1, either a read of the program
\* name or of the input was out of bounds and the handler was not called, or
\* the handler was called, returned output without an error, and the
\* allocation of the buffer for the output failed.
C9_MinusOne ==
  (cb.n >= 1 /\ cb.status = EncodeI32(-1))
    => \/ ~cb.handler /\ ~ReadsInMemory(cb.words)
       \/ cb.handler /\ ReadsInMemory(cb.words) /\ ~cb.herr /\ cb.aerr # NoError
C9_Witness ==
  cb.n >= 1 /\ cb.status = EncodeI32(-1) /\ cb.handler /\ cb.aerr = ErrMallocNull

\* What C10 promises after the handler returned output.
OutputDelivered ==
  /\ cb.status = EncodeI32(0)
  /\ SlotValue(cb.words.outputPtrPtr) = cb.ptr
  /\ SlotValue(cb.words.outputLenPtr) = Len(cb.data)
  /\ NewBufferHoldsData
  /\ SlotValue(cb.words.errorPtrPtr) = 0
  /\ SlotValue(cb.words.errorLenPtr) = 0
\* C10 as claimed: when the handler returns output without an error, the
\* callback returns 0, the output slots hold the pointer and the length of a
\* new buffer with the output, and the error slots hold 0.
C10_Original ==
  (cb.n >= 1 /\ cb.handler /\ ~cb.herr) => OutputDelivered
\* C10, amended: the same, provided the allocation of the buffer for the
\* output succeeds and the four slots lie in the guest's memory.
C10_OutputSlots ==
  (cb.n >= 1 /\ cb.handler /\ ~cb.herr /\ cb.aerr = NoError /\ SlotsInMemory(cb.words))
    => OutputDelivered
C10_Witness ==
  /\ cb.n >= 1 /\ cb.handler /\ ~cb.herr /\ cb.aerr = NoError
  /\ SlotsInMemory(cb.words) /\ cb.data # << >>

\* C11: a callback whose read of the program name or of the input is out of
\* bounds returns -1 without calling the handler; it calls neither malloc nor
\* free, and the memory is what the guest set up before the call: no slot is
\* written and no buffer is handed to the guest.
C11_ReadFailureReturnsAtOnce ==
  [][ (cb'.n = cb.n + 1 /\ ~ReadsInMemory(cb'.words))
        => /\ cb'.status = EncodeI32(-1)
           /\ ~cb'.handler
           /\ g'.mallocs = g.mallocs /\ g'.allocd = g.allocd /\ g'.frees = g.frees
           /\ g'.heap = g.heap /\ g'.live = g.live
           /\ g'.mem = GuestFrameSetup(g.mem)
           /\ handed' = handed ]_vars
C11_Witness ==
  /\ cb.n >= 1 /\ ~CanAccess(cb.words.inputPtr, cb.words.inputLen)
  /\ cb.status = EncodeI32(-1) /\ ~cb.handler
  /\ SlotValue(cb.words.outputPtrPtr) = 0 /\ SlotValue(cb.words.errorPtrPtr) = 0

\* C12 as claimed: once a Run has returned the error "protoc_run failed", no
\* later Run on the instance calls the protoc_run export.
C12_NoRunAfterRunFailed ==
  [][ \A t \in Threads :
        (calls.runFailed >= 1 /\ pc[t] = "body" /\ op[t].name = "Run")
          => calls'.protocRun = calls.protocRun ]_vars

\* C13 as claimed: a Close on an instance on which no Init has succeeded does
\* not call protoc_destroy, does not close the module, and the instance is
\* as it was.
C13_Original ==
  \A t \in Threads :
    (Returning(t, "Close") /\ calls.initOk = 0)
      => /\ calls.protocDestroy = 0
         /\ calls.modClose = 0 /\ ~modClosed
         /\ ~initialized
\* C13, amended: a Close on an instance on which no Init has succeeded does
\* not call protoc_destroy and leaves p.initialized false, but it calls
\* p.mod.Close: the module is closed.
C13_CloseNeverInitialized ==
  \A t \in Threads :
    (Returning(t, "Close") /\ calls.initOk = 0)
      => /\ calls.protocDestroy = 0 /\ calls.destroyFailed = 0
         /\ ~initialized
         /\ calls.modClose = calls.Close /\ modClosed
C13_Witness ==
  \E t \in Threads :
    /\ Returning(t, "Close") /\ calls.initOk = 0 /\ calls.Close = 1
    /\ calls.protocInit = 1 /\ ret[t].err = NoError

\* C14 as claimed: when the call of protoc_destroy fails, Close still resets
\* p.initialized and closes the module, and Close returns nil: the release
\* always appears to succeed.
C14_Original ==
  \A t \in Threads :
    (Returning(t, "Close") /\ calls.destroyFailed >= 1)
      => /\ ret[t].err = NoError
         /\ ~initialized
         /\ modClosed
\* C14, amended: when the call of protoc_destroy fails, Close does not return
\* that error, still resets p.initialized and still closes the module; what
\* Close returns is the result of p.mod.Close, nil or its error.
C14_DestroyFailureDropped ==
  \A t \in Threads :
    (Returning(t, "Close") /\ calls.destroyFailed >= 1)
      => /\ ret[t].err \in { NoError, ErrModClose }
         /\ ~initialized
         /\ modClosed /\ calls.modClose = calls.Close
C14_Witness ==
  \E t \in Threads :
    /\ Returning(t, "Close") /\ calls.destroyFailed = 1 /\ calls.Close = 1
    /\ ret[t].err = NoError

\* C15: when protoc_run returns a result word, Run returns that word read as
\* a signed 32-bit integer and a nil error, whatever its value; Run returns
\* an error only when protoc_run was not called or its call failed, and then
\* the error of a failed call is "protoc_run failed".
C15_ExitCodeVerbatim ==
  \A t \in Threads :
    Returning(t, "Run")
      => /\ (loc[t].res # NoRes /\ ~loc[t].res.trap)
              => /\ ret[t].err = NoError
                 /\ EncodeI32(ret[t].code) = loc[t].res.val
         /\ (ret[t].err # NoError) => (loc[t].res = NoRes \/ loc[t].res.trap)
         /\ loc[t].res.trap => ret[t] = [ code |-> 1, err |-> ErrRunFailed ]
C15_Witness ==
  \E t \in Threads :
    /\ Returning(t, "Run") /\ ~loc[t].res.trap
    /\ loc[t].res.val = EncodeI32(-1)
    /\ ret[t] = [ code |-> -1, err |-> NoError ]

\* C16 as claimed: every Run on an initialized instance passes the
\* initialized check and calls the protoc_run export.
C16_Original ==
  \A t \in Threads :
    (Returning(t, "Run") /\ initialized)
      => /\ ret[t].err # ErrNotInitialized
         /\ loc[t].res # NoRes
\* C16, amended: no step of a Run changes p.initialized, and every Run on an
\* initialized instance passes the initialized check and calls the protoc_run
\* export unless its own argument setup fails, whatever the earlier Run
\* calls returned.
C16_RunKeepsLifecycle ==
  /\ [](\A t \in Threads :
          (Returning(t, "Run") /\ initialized)
            => /\ ret[t].err # ErrNotInitialized
               /\ (loc[t].res # NoRes \/ ret[t].err \in SetupErrors))
  /\ [][ (\E t \in Threads : InCritical(t) /\ op[t].name = "Run")
           => initialized' = initialized ]_vars
C16_Witness ==
  \E t \in Threads :
    /\ Returning(t, "Run") /\ initialized
    /\ calls.protocRun = 2 /\ calls.initOk = 1
    /\ ret[t] = [ code |-> 0, err |-> NoError ]

\* C17: a thread waiting for p.mu has failed nothing (its call has no result
\* yet), and it eventually holds the mutex with the body of its call
\* completed, and returns.
C17_LockLiveness ==
  /\ [](\A t \in Threads : (pc[t] = "lock") => (ret[t] = NoRet))
  /\ \A t \in Threads : (pc[t] = "lock") ~> (mu = t /\ pc[t] = "unlock")
  /\ \A t \in Threads : (pc[t] = "unlock") ~> (mu # t /\ pc[t] = "idle")
C17_Witness ==
  \E t1, t2 \in Threads :
    /\ pc[t1] = "lock" /\ mu = t2 /\ pc[t2] = "unlock"
    /\ nOps = MaxOps

\* The byte buffers allocBytes is applied to in every reachable state of the
\* guest's memory and allocator.
Buffers == { << >>, << 7 >>, << 1, 2 >>, << 255, 0, 9 >> }
\* r is what allocBytes(data) returned: when it succeeded, the Len(data)
\* bytes at the pointer, in the memory it left, are data.
ReadsBack(r, data) ==
  (r.err = NoError)
    => /\ r.ptr # 0
       /\ CanAccess(r.ptr, Len(data))
       /\ MemRead(r.g.mem, r.ptr, Len(data)) = data
\* The buffer at ptr holds data in the current memory.
Holds(ptr, data) ==
  CanAccess(ptr, Len(data)) /\ MemRead(g.mem, ptr, Len(data)) = data

\* C18: whenever allocBytes(b) succeeds and returns p, the len(b) bytes of
\* the guest's memory at p are b: for every buffer of Buffers and every
\* outcome of malloc in every reachable state, for the argument strings Run
\* allocated when it calls protoc_run, and for the buffer a callback allocated.
C18_RoundTrip ==
  /\ \A data \in Buffers, mo \in MallocOutcomes : ReadsBack(allocBytes(g, data, mo), data)
  /\ \A t \in Threads :
       (pc[t] = "guest")
         => \A i \in 1..Len(loc[t].args) :
              Holds(loc[t].argPtrs[i], Append(loc[t].args[i], 0))
  /\ (cb.n >= 1 /\ cb.handler /\ cb.aerr = NoError) => Holds(cb.ptr, cb.data)
C18_Witness ==
  \E t \in Threads :
    /\ pc[t] = "guest" /\ Len(loc[t].args) = 2 /\ cb.n = 1 /\ cb.aerr = NoError
    /\ Holds(loc[t].argPtrs[2], << 98, 98, 0 >>)
    /\ cb.ptr # 0 /\ Holds(cb.ptr, << 7 >>)

\* C19 as claimed: while protoc_run runs, the count passed is the number of
\* arguments, entry i of the pointer array holds the pointer of the block with
\* argument i and a zero byte after it, and neither these blocks nor the
\* pointer array have been freed.
C19_ArgvInvariant ==
  \A t \in Threads :
    (pc[t] = "guest")
      => /\ loc[t].argc = Len(loc[t].args)
         /\ loc[t].args = RunArgs(op[t].args)
         /\ Len(loc[t].argPtrs) = loc[t].argc
         /\ \A i \in 1..loc[t].argc :
              /\ SlotValue(loc[t].argvPtr + 4 * (i - 1)) = loc[t].argPtrs[i]
              /\ Holds(loc[t].argPtrs[i], Append(loc[t].args[i], 0))
              /\ loc[t].argPtrs[i] \in g.live
              /\ loc[t].argPtrs[i] \notin Range(g.frees)
         /\ loc[t].argvPtr \in g.live
         /\ loc[t].argvPtr \notin Range(g.frees)

\* C20 as claimed: when a write of an entry of the pointer array was rejected,
\* Run does not call protoc_run: it returns an error, with the pointer array
\* and every argument string freed.
C20_ArgvWriteRejectedUnwinds ==
  \A t \in Threads :
    (/\ op[t].name = "Run" /\ loc[t].argvPtr # 0
     /\ \E i \in 1..Len(loc[t].argPtrs) : ~CanAccess(loc[t].argvPtr + 4 * (i - 1), 4))
      => /\ pc[t] = "unlock"
         /\ loc[t].res = NoRes
         /\ ret[t].err # NoError
         /\ g.live = {}
         /\ Range(g.allocd) \subseteq Range(g.frees)

\* C21 as claimed: once Close has released the instance (p.mod is closed), no
\* step of a later Init, Run or Close calls a guest export (protoc_init,
\* protoc_run, protoc_destroy, malloc, free) or closes the module again.
C21_NoCallAfterRelease ==
  [][ modClosed =>
        /\ calls'.protocInit = calls.protocInit
        /\ calls'.protocRun = calls.protocRun
        /\ calls'.protocDestroy = calls.protocDestroy
        /\ calls'.modClose = calls.modClose
        /\ g'.mallocs <= g.mallocs
        /\ Len(g'.frees) <= Len(g.frees) ]_vars

\* C22: a plugin callback runs on the thread that is inside Run and holds
\* p.mu, and it neither releases nor re-acquires the mutex: the thread is
\* back in protoc_run afterwards.  So a Run whose guest makes callbacks does
\* not deadlock: once protoc_run returns, Run returns and the mutex is
\* released.
C22_CallbackNeverBlocks ==
  /\ [][ cb'.n = cb.n + 1 =>
           \E t \in Threads :
             /\ pc[t] = "guest" /\ mu = t
             /\ mu' = t /\ pc' = pc ]_vars
  /\ \A t \in Threads : (pc[t] = "guest") ~> (pc[t] = "idle" /\ mu # t)
\* A Run during which the guest called back is returning, still holding p.mu.
C22_Witness ==
  \E t \in Threads :
    /\ Returning(t, "Run") /\ mu = t
    /\ calls.protocRun >= 1 /\ handed # {}

\* C23: an Init whose call of protoc_init traps or returns a non-zero status
\* returns an error and leaves the instance uninitialized; p.initialized is
\* true after an Init only if the export returned 0 or the instance was
\* initialized already.  While no Init has succeeded, a following Run is
\* refused as not initialized without calling protoc_run, and a following
\* Init calls protoc_init again.
C23_FailedInitStaysCreated ==
  /\ [](\A t \in Threads :
          Returning(t, "Init") =>
            /\ loc[t].res.trap => (ret[t].err = ErrInitFailed /\ ~initialized)
            /\ (loc[t].res # NoRes /\ ~loc[t].res.trap /\ Int32(loc[t].res.val) # 0)
                 => (ret[t].err = ErrInitStatus /\ ~initialized)
            /\ initialized =>
                 /\ ret[t].err = NoError
                 /\ \/ loc[t].res = NoRes
                    \/ ~loc[t].res.trap /\ Int32(loc[t].res.val) = 0)
  /\ [][ \A t \in Threads :
           (/\ calls.protocInit >= 1 /\ calls.initOk = 0
            /\ pc[t] = "body" /\ pc'[t] = "unlock")
             => /\ op[t].name = "Init" => calls'.protocInit = calls.protocInit + 1
                /\ op[t].name = "Run" =>
                     /\ ret'[t].err = ErrNotInitialized
                     /\ calls'.protocRun = calls.protocRun ]_vars
\* An Init succeeds after an Init that failed.
C23_Witness ==
  \E t \in Threads :
    /\ Returning(t, "Init") /\ initialized
    /\ calls.protocInit = 2 /\ calls.initOk = 1 /\ calls.Close = 0

\* How often the pointer p occurs in the log q.
Count(q, p) == Cardinality({ i \in 1..Len(q) : q[i] = p })

\* C24: when Run returns, on every path, the host has never passed the null
\* pointer to free, every pointer it passed to free came from malloc during
\* this Run, and each allocation was passed to free exactly once, except the
\* buffers a callback handed to the guest, which the host did not free.
\* After a completed setup each argument pointer and the pointer array were
\* freed exactly once.
C24_FreedExactlyOnce ==
  \A t \in Threads :
    Returning(t, "Run") =>
      /\ 0 \notin Range(g.frees)
      /\ Range(g.frees) \subseteq Range(g.allocd)
      /\ \A p \in Range(g.allocd) :
           Count(g.frees, p) + (IF p \in handed THEN 1 ELSE 0) = Count(g.allocd, p)
      /\ loc[t].argvPtr # 0 =>
           \A p \in Range(loc[t].argPtrs) \cup { loc[t].argvPtr } :
             Count(g.frees, p) = 1 /\ p \notin handed
\* A Run with two arguments returns after a callback handed a buffer to the
\* guest: four allocations, three frees.
C24_Witness ==
  \E t \in Threads :
    /\ Returning(t, "Run") /\ Len(loc[t].argPtrs) = 2
    /\ Len(g.allocd) = 4 /\ Len(g.frees) = 3 /\ Cardinality(handed) = 1

\* C25 as claimed: Close releases every module the creation of the instance
\* instantiated in the runtime, so once the instance is closed the runtime
\* holds the modules it held before NewProtoc, and a further NewProtoc on the
\* same runtime succeeds.
C25_CloseRestoresRuntime ==
  /\ [](modClosed => runtime = NewRuntime)
  /\ [][ (modClosed /\ made'.n = made.n + 1) => made'.err = NoError ]_vars

====
